---- MODULE Spec2Model ----
(***************************************************************************)
(* State-machine model of sushichef.py (Covid19SimChef): download_content  *)
(* followed by construct_channel.  Python strings that the code compares,  *)
(* sorts, strips or searches are sequences of Unicode code points, so that *)
(* sorting, `in`, strip() and endswith() are computed rather than assumed. *)
(***************************************************************************)
EXTENDS Integers, Sequences, FiniteSets, TLC

(* ------------------------- string literals ----------------------------- *)

\* 'https://ncase.me/covid-19/'
ROOT_URL ==
    <<104, 116, 116, 112, 115, 58, 47, 47, 110, 99, 97, 115, 101, 46, 109, 101, 47, 99, 111, 118, 105, 100, 45, 49, 57, 47>>

\* the store key of the root page: 'English'
English ==
    <<69, 110, 103, 108, 105, 115, 104>>

\* 'translation' (line 90)
TranslationWord ==
    <<116, 114, 97, 110, 115, 108, 97, 116, 105, 111, 110>>

\* 'dp3t.png' (line 160)
ThumbFragment ==
    <<100, 112, 51, 116, 46, 112, 110, 103>>

\* 'index.html'
IndexHtml ==
    <<105, 110, 100, 101, 120, 46, 104, 116, 109, 108>>

\* '.zip' of "{}.zip".format(zip_name)
DotZip ==
    <<46, 122, 105, 112>>

\* '/'
Slash ==
    <<47>>

\* ZIP_DIR, relative to the working directory
ZIP_DIR ==
    <<99, 104, 101, 102, 100, 97, 116, 97, 47, 122, 105, 112, 115>>

\* 'covid19-sim-'
SourceIdPrefix ==
    <<99, 111, 118, 105, 100, 49, 57, 45, 115, 105, 109, 45>>

\* stem of the directories create_zip_dir_for_page hands out
TmpDir ==
    <<47, 116, 109, 112, 47, 122, 105, 112>>

\* 'Portugu\xeas'
Portugues ==
    <<80, 111, 114, 116, 117, 103, 117, 234, 115>>

\* 'Portugu\xeas (Brasil)'
PortuguesBrasil ==
    <<80, 111, 114, 116, 117, 103, 117, 234, 115, 32, 40, 66, 114, 97, 115, 105, 108, 41>>

\* 'pt': a link text that is no native name
LowerPt ==
    <<112, 116>>

\* 'Help make a translation'
HelpTranslate ==
    <<72, 101, 108, 112, 32, 109, 97, 107, 101, 32, 97, 32, 116, 114, 97, 110, 115, 108, 97, 116, 105, 111, 110>>

\* ' Portugu\xeas<LF>': link text as it stands in the HTML
PaddedPortugues ==
    <<32, 80, 111, 114, 116, 117, 103, 117, 234, 115, 10>>

\* 'https://ncase.me/covid-19/pt/'
HrefPt ==
    <<104, 116, 116, 112, 115, 58, 47, 47, 110, 99, 97, 115, 101, 46, 109, 101, 47, 99, 111, 118, 105, 100, 45, 49, 57, 47, 112, 116, 47>>

\* 'https://ncase.me/covid-19/pt-BR'
HrefPtBr ==
    <<104, 116, 116, 112, 115, 58, 47, 47, 110, 99, 97, 115, 101, 46, 109, 101, 47, 99, 111, 118, 105, 100, 45, 49, 57, 47, 112, 116, 45, 66, 82>>

\* 'https://ncase.me/covid-19/x-pt/'
HrefLowerPt ==
    <<104, 116, 116, 112, 115, 58, 47, 47, 110, 99, 97, 115, 101, 46, 109, 101, 47, 99, 111, 118, 105, 100, 45, 49, 57, 47, 120, 45, 112, 116, 47>>

\* 'https://github.com/ncase/covid-19#translate'
HrefHelp ==
    <<104, 116, 116, 112, 115, 58, 47, 47, 103, 105, 116, 104, 117, 98, 46, 99, 111, 109, 47, 110, 99, 97, 115, 101, 47, 99, 111, 118, 105, 100, 45, 49, 57, 35, 116, 114, 97, 110, 115, 108, 97, 116, 101>>

\* 'en'
CodeEn ==
    <<101, 110>>

\* 'pt'
CodePt ==
    <<112, 116>>

\* 'pt-BR'
CodePtBr ==
    <<112, 116, 45, 66, 82>>

\* 'css/index.css'
ResCss ==
    <<99, 115, 115, 47, 105, 110, 100, 101, 120, 46, 99, 115, 115>>

\* 'banners/dp3t.png'
ResThumb ==
    <<98, 97, 110, 110, 101, 114, 115, 47, 100, 112, 51, 116, 46, 112, 110, 103>>

\* 'sharing/dp3t.png'
ResThumb2 ==
    <<115, 104, 97, 114, 105, 110, 103, 47, 100, 112, 51, 116, 46, 112, 110, 103>>

\* 'sim/dp3t.png.js'
ResJs ==
    <<115, 105, 109, 47, 100, 112, 51, 116, 46, 112, 110, 103, 46, 106, 115>>

(* ------------------------------ bounds --------------------------------- *)

\* most links in the translations block of the root page
MaxLinks == 2

\* most languages besides English in the store a run starts from
MaxStored == 2

\* most entries of a record's resource list in SpecThumb
MaxRes == 3

(* ------------------------ Python string helpers ------------------------ *)

\* s[i:i+len(frag)] == frag
MatchesAt(s, frag, i) ==
    /\ i + Len(frag) - 1 <= Len(s)
    /\ \A j \in 1..Len(frag) : s[i + j - 1] = frag[j]

\* frag in s
Contains(frag, s) ==
    \E i \in 1..(Len(s) + 1) : MatchesAt(s, frag, i)

\* s.endswith(suffix)
EndsWith(s, suffix) ==
    /\ Len(suffix) <= Len(s)
    /\ MatchesAt(s, suffix, Len(s) - Len(suffix) + 1)

\* str.isspace() of one code point: space, \t, \n, \v, \f, \r
IsSpace(c) ==
    c \in {32, 9, 10, 11, 12, 13}

RECURSIVE LStrip(_)
LStrip(s) ==
    IF s # <<>> /\ IsSpace(Head(s)) THEN LStrip(Tail(s)) ELSE s

RECURSIVE RStrip(_)
RStrip(s) ==
    IF s # <<>> /\ IsSpace(s[Len(s)]) THEN RStrip(SubSeq(s, 1, Len(s) - 1)) ELSE s

\* s.strip()
Strip(s) ==
    RStrip(LStrip(s))

\* a < b for Python str: code point by code point, a proper prefix first
RECURSIVE StrLess(_, _)
StrLess(a, b) ==
    IF b = <<>> THEN FALSE
    ELSE IF a = <<>> THEN TRUE
    ELSE IF Head(a) # Head(b) THEN Head(a) < Head(b)
    ELSE StrLess(Tail(a), Tail(b))

\* os.path.join(a, b) for two components
os_path_join(a, b) ==
    IF b # <<>> /\ Head(b) = Head(Slash) THEN b
    ELSE IF a = <<>> \/ EndsWith(a, Slash) THEN a \o b
    ELSE a \o Slash \o b

(* ------------------------------ values --------------------------------- *)

\* Python None
NoneVal ==
    [kind |-> "None"]

\* a Python str held in a field that may also hold None or an object
StrVal(s) ==
    [kind |-> "str", value |-> s]

\* a le_utils Language object
LangVal(code, primary) ==
    [kind |-> "Language", code |-> code, primary_code |-> primary]

\* languages.getlang_by_native_name: the rows of the language table that the
\* display names of the model can hit; any other name is not found.
getlang_by_native_name(name) ==
    IF name = English THEN LangVal(CodeEn, CodeEn)
    ELSE IF name = Portugues THEN LangVal(CodePt, CodePt)
    ELSE IF name = PortuguesBrasil THEN LangVal(CodePtBr, CodePt)
    ELSE NoneVal

\* `if lang:`
Truthy(v) ==
    v.kind # "None"

(* ------------------------ ordered dict self.data ----------------------- *)

\* A dict is the sequence of its items in insertion order; an item is the
\* key together with the record get_page returned for it.

DictKeys(d) ==
    [i \in 1..Len(d) |-> d[i].key]

DictHas(d, k) ==
    \E i \in 1..Len(d) : d[i].key = k

DictGet(d, k) ==
    d[CHOOSE i \in 1..Len(d) : d[i].key = k]

\* d[k] = item: an existing key keeps its position
DictSet(d, k, item) ==
    IF DictHas(d, k)
    THEN [i \in 1..Len(d) |-> IF d[i].key = k THEN item ELSE d[i]]
    ELSE Append(d, item)

(* --------------------------- the remote site --------------------------- *)

\* the <a href> elements the translations block can hold
LinkPool ==
    { [text |-> PaddedPortugues, href |-> HrefPt],
      [text |-> PortuguesBrasil, href |-> HrefPtBr],
      [text |-> LowerPt, href |-> HrefLowerPt],
      [text |-> HelpTranslate, href |-> HrefHelp] }

\* sequences of distinct elements of S, of length at most n
RECURSIVE DistinctSeqs(_, _)
DistinctSeqs(S, n) ==
    IF n = 0 THEN { <<>> }
    ELSE LET shorter == DistinctSeqs(S, n - 1)
         IN  shorter \cup
             { Append(p[1], p[2]) :
                 p \in { q \in shorter \X S :
                           /\ Len(q[1]) = n - 1
                           /\ \A i \in 1..Len(q[1]) : q[1][i] # q[2] } }

\* the root page: with or without <div id="translations">, and its links
Sites ==
    { [hasBlock |-> FALSE, links |-> <<>>] } \cup
    { [hasBlock |-> TRUE, links |-> l] : l \in DistinctSeqs(LinkPool, MaxLinks) }

\* what the site serves beside a page, in the order get_page records it
SiteResources(url) ==
    IF url = ROOT_URL THEN <<ResCss, ResThumb, ResThumb2>>
    ELSE IF url = HrefPt THEN <<ResThumb2, ResThumb>>
    ELSE IF url = HrefPtBr \o Slash THEN <<ResCss>>
    ELSE <<>>

\* the path under ARCHIVE_DIR where the archive keeps the page of url
IndexPathOf(url) ==
    os_path_join(url, IndexHtml)

\* the text of <span id="share_title"> of the page of url
PageTitle(url) ==
    <<34>> \o url \o <<34>>

\* ArchiveDownloader.get_page(url, ...): the item stored under key
get_page(key, url) ==
    [key |-> key, url |-> url, index_path |-> IndexPathOf(url),
     resources |-> SiteResources(url)]

\* lines 95-97: the href with a closing slash
LinkUrl(href) ==
    IF ~EndsWith(href, Slash) THEN href \o Slash ELSE href

(* ------------------------------- state --------------------------------- *)

VARIABLES
    site,        \* the root page as served and as archived: [hasBlock, links]
    storeFile,   \* ARCHIVE_DATA on disk: [state, doc]
    disk,        \* the index_path files that exist (os.path.exists)
    data,        \* self.data
    pc,          \* the statement the run is at
    idx,         \* position of `link` in `links` (loop of line 85)
    netCalls,    \* remote retrievals made by this run
    warnings,    \* what LOGGER.warning has been given
    lang_names,  \* the sorted list of line 120
    pos,         \* position of lang_name in lang_names (loop of line 122)
    channel,     \* the children of the ChannelNode, in add_child order
    zips,        \* files under ZIP_DIR: file name -> the language packaged in it
    written,     \* languages whose index.html was rewritten in their zip dir
    relocated,   \* languages whose archive os.rename has moved
    failure,     \* why the run stopped early
    store0,      \* storeFile as the run found it
    disk0        \* disk as the run found it

vars ==
    <<site, storeFile, disk, data, pc, idx, netCalls, warnings, lang_names,
      pos, channel, zips, written, relocated, failure, store0, disk0>>

\* ARCHIVE_DATA does not exist
AbsentFile ==
    [state |-> "absent", doc |-> <<>>]

\* ARCHIVE_DATA right after open(..., 'w')
EmptyFile ==
    [state |-> "empty", doc |-> <<>>]

\* ARCHIVE_DATA holding the beginning of a JSON document
PartialFile ==
    [state |-> "partial", doc |-> <<>>]

\* ARCHIVE_DATA holding the whole of json.dump(d)
CompleteFile(d) ==
    [state |-> "complete", doc |-> d]

\* the item an earlier run stored for a link
ItemOfLink(link) ==
    get_page(Strip(link.text), LinkUrl(link.href))

\* the links an earlier run can have stored a language for
StorableLinks ==
    { l \in LinkPool : ~Contains(TranslationWord, Strip(l.text)) }

\* the documents an earlier run can have saved: English, which every run
\* stores first, then the languages of the links it followed
PriorDocs ==
    { <<get_page(English, ROOT_URL)>> \o [i \in 1..Len(l) |-> ItemOfLink(l[i])] :
        l \in DistinctSeqs(StorableLinks, MaxStored) }

\* the store a run can start from: none, a complete one, or one cut short
PriorStores ==
    { AbsentFile, PartialFile } \cup { CompleteFile(d) : d \in PriorDocs }

IndexPaths(d) ==
    { d[i].index_path : i \in 1..Len(d) }

\* every file name "{}.zip".format(zip_name) can produce under ZIP_DIR
ZipFileName(zip_name) ==
    os_path_join(ZIP_DIR, zip_name \o DotZip)

\* the display names a run can meet
DisplayNames ==
    { English } \cup { Strip(l.text) : l \in LinkPool }

ZipFiles ==
    { ZipFileName(n) : n \in DisplayNames \cup {CodeEn, CodePt, CodePtBr} }

\* no file at that path
NoFile ==
    <<>>

\* the variables of construct_channel before it runs
ConstructIdle ==
    /\ lang_names = <<>>
    /\ pos = 0
    /\ channel = <<>>
    /\ zips = [f \in ZipFiles |-> NoFile]
    /\ written = {}
    /\ relocated = {}

Init ==
    /\ site \in Sites
    /\ storeFile \in PriorStores
    /\ disk \in SUBSET IndexPaths(storeFile.doc)
    /\ data = <<>>
    /\ pc = "start"
    /\ idx = 0
    /\ netCalls = 0
    /\ warnings = {}
    /\ ConstructIdle
    /\ failure = "none"
    /\ store0 = storeFile
    /\ disk0 = disk

(* -------------------------- download_content --------------------------- *)

\* LoadStore that never reads the file: self.data stays {}
LoadStore_Fresh(file) ==
    <<>>

\* lines 68-70: json.loads of the file; a file cut short does not parse
LoadStore(file) ==
    IF file.state = "complete" THEN file.doc ELSE <<>>

Load ==
    /\ pc = "start"
    /\ storeFile.state \in {"absent", "complete"}
    /\ data' = LoadStore(storeFile)
    /\ pc' = "english"
    /\ UNCHANGED <<site, storeFile, disk, idx, netCalls, warnings, lang_names,
                   pos, channel, zips, written, relocated, failure, store0, disk0>>

\* line 70 raising json.JSONDecodeError
LoadFails ==
    /\ pc = "start"
    /\ storeFile.state \in {"empty", "partial"}
    /\ pc' = "failed"
    /\ failure' = "load"
    /\ UNCHANGED <<site, storeFile, disk, data, idx, netCalls, warnings,
                   lang_names, pos, channel, zips, written, relocated, store0, disk0>>

\* NeedsFetch with the `not` before os.path.exists left out
NeedsFetch_NoNot(d, lang, files) ==
    IF ~DictHas(d, lang) THEN TRUE
    ELSE DictGet(d, lang).index_path \in files

\* lines 76 and 94: not lang in self.data or not os.path.exists(index_path)
NeedsFetch(d, lang, files) ==
    IF ~DictHas(d, lang) THEN TRUE
    ELSE DictGet(d, lang).index_path \notin files

\* lines 77 and 98: the page is retrieved, archived and its item stored
Fetch(lang, url) ==
    /\ data' = DictSet(data, lang, get_page(lang, url))
    /\ disk' = disk \cup { IndexPathOf(url) }
    /\ netCalls' = netCalls + 1

\* get_page raising: the site cannot be reached
FetchFails ==
    /\ pc' = "failed"
    /\ failure' = "fetch"
    /\ netCalls' = netCalls + 1
    /\ UNCHANGED <<site, storeFile, disk, data, idx, warnings, lang_names,
                   pos, channel, zips, written, relocated, store0, disk0>>

FetchEnglish ==
    /\ pc = "english"
    /\ NeedsFetch(data, English, disk)
    /\ Fetch(English, ROOT_URL)
    /\ pc' = "soup"
    /\ UNCHANGED <<site, storeFile, idx, warnings, lang_names, pos, channel,
                   zips, written, relocated, failure, store0, disk0>>

FetchEnglishFails ==
    /\ pc = "english"
    /\ NeedsFetch(data, English, disk)
    /\ FetchFails

SkipEnglish ==
    /\ pc = "english"
    /\ ~NeedsFetch(data, English, disk)
    /\ pc' = "soup"
    /\ UNCHANGED <<site, storeFile, disk, data, idx, netCalls, warnings,
                   lang_names, pos, channel, zips, written, relocated, failure,
                   store0, disk0>>

\* LOGGER.warning("No translations found?")
NoTranslationsWarning ==
    [msg |-> "No translations found?", arg |-> <<>>]

\* lines 81-84 and 101-102: get_page_soup reads the copy of the root page
\* kept in the archive (no retrieval) and looks for the translations block
ParseRoot ==
    /\ pc = "soup"
    /\ IF site.hasBlock
       THEN /\ pc' = "links"
            /\ idx' = 1
            /\ UNCHANGED warnings
       ELSE /\ pc' = "save"
            /\ warnings' = warnings \cup { NoTranslationsWarning }
            /\ UNCHANGED idx
    /\ UNCHANGED <<site, storeFile, disk, data, netCalls, lang_names, pos,
                   channel, zips, written, relocated, failure, store0, disk0>>

\* line 86
LinkLang(link) ==
    Strip(link.text)

InLinks ==
    /\ pc = "links"
    /\ idx <= Len(site.links)

\* lines 90-91
SkipHelpLink ==
    /\ InLinks
    /\ Contains(TranslationWord, LinkLang(site.links[idx]))
    /\ idx' = idx + 1
    /\ UNCHANGED <<site, storeFile, disk, data, pc, netCalls, warnings,
                   lang_names, pos, channel, zips, written, relocated, failure,
                   store0, disk0>>

\* lines 94-98
FetchLang ==
    /\ InLinks
    /\ LET link == site.links[idx]
           lang == LinkLang(link)
       IN  /\ ~Contains(TranslationWord, lang)
           /\ NeedsFetch(data, lang, disk)
           /\ Fetch(lang, LinkUrl(link.href))
    /\ idx' = idx + 1
    /\ UNCHANGED <<site, storeFile, pc, warnings, lang_names, pos, channel,
                   zips, written, relocated, failure, store0, disk0>>

FetchLangFails ==
    /\ InLinks
    /\ LET lang == LinkLang(site.links[idx])
       IN  /\ ~Contains(TranslationWord, lang)
           /\ NeedsFetch(data, lang, disk)
    /\ FetchFails

\* line 94 false: the language is already stored and its page is on disk
SkipLang ==
    /\ InLinks
    /\ LET lang == LinkLang(site.links[idx])
       IN  /\ ~Contains(TranslationWord, lang)
           /\ ~NeedsFetch(data, lang, disk)
    /\ idx' = idx + 1
    /\ UNCHANGED <<site, storeFile, disk, data, pc, netCalls, warnings,
                   lang_names, pos, channel, zips, written, relocated, failure,
                   store0, disk0>>

\* the loop of line 85 is over
LinksDone ==
    /\ pc = "links"
    /\ idx > Len(site.links)
    /\ pc' = "save"
    /\ UNCHANGED <<site, storeFile, disk, data, idx, netCalls, warnings,
                   lang_names, pos, channel, zips, written, relocated, failure,
                   store0, disk0>>

\* line 104: open(ARCHIVE_DATA, 'w') truncates the file in place
OpenStore ==
    /\ pc = "save"
    /\ storeFile' = EmptyFile
    /\ pc' = "dump"
    /\ UNCHANGED <<site, disk, data, idx, netCalls, warnings, lang_names, pos,
                   channel, zips, written, relocated, failure, store0, disk0>>

\* line 105: json.dump has written the first chunks of the document
DumpSome ==
    /\ pc = "dump"
    /\ storeFile.state = "empty"
    /\ storeFile' = PartialFile
    /\ UNCHANGED <<site, disk, data, pc, idx, netCalls, warnings, lang_names,
                   pos, channel, zips, written, relocated, failure, store0, disk0>>

\* line 105 and the end of the with block: the document is whole
DumpDone ==
    /\ pc = "dump"
    /\ storeFile' = CompleteFile(data)
    /\ pc' = "downloaded"
    /\ UNCHANGED <<site, disk, data, idx, netCalls, warnings, lang_names, pos,
                   channel, zips, written, relocated, failure, store0, disk0>>

\* the process dies, or the write raises (disk full), while the file is open
DumpCrash ==
    /\ pc = "dump"
    /\ pc' = "failed"
    /\ failure' = "save"
    /\ UNCHANGED <<site, storeFile, disk, data, idx, netCalls, warnings,
                   lang_names, pos, channel, zips, written, relocated, store0, disk0>>

(* -------------------------- construct_channel -------------------------- *)

\* insert x into the ascending list s
RECURSIVE Insert(_, _)
Insert(x, s) ==
    IF s = <<>> THEN <<x>>
    ELSE IF StrLess(x, Head(s)) THEN <<x>> \o s
    ELSE <<Head(s)>> \o Insert(x, Tail(s))

\* SortNamesOf without the sort: the keys in insertion order
SortNamesOf_Unsorted(names) ==
    names

\* line 120: list.sort() of str, ascending by code point
RECURSIVE SortNamesOf(_)
SortNamesOf(names) ==
    IF names = <<>> THEN <<>>
    ELSE Insert(Head(names), SortNamesOf(Tail(names)))

\* lines 119-120
SortNames ==
    /\ pc = "downloaded"
    /\ lang_names' = SortNamesOf(DictKeys(data))
    /\ pos' = 1
    /\ pc' = "construct"
    /\ UNCHANGED <<site, storeFile, disk, data, idx, netCalls, warnings,
                   channel, zips, written, relocated, failure, store0, disk0>>

\* ScanThumbnail without the break: the last match wins
RECURSIVE ScanThumbnail_NoBreak(_, _, _)
ScanThumbnail_NoBreak(zip_dir, resources, i) ==
    IF i > Len(resources) THEN NoneVal
    ELSE LET later == ScanThumbnail_NoBreak(zip_dir, resources, i + 1)
         IN  IF later # NoneVal THEN later
             ELSE IF Contains(ThumbFragment, resources[i])
                  THEN StrVal(os_path_join(zip_dir, resources[i]))
                  ELSE NoneVal

\* lines 158-162: the first resource, from position i on, holding the fragment
RECURSIVE ScanThumbnail(_, _, _)
ScanThumbnail(zip_dir, resources, i) ==
    IF i > Len(resources) THEN NoneVal
    ELSE IF Contains(ThumbFragment, resources[i])
         THEN StrVal(os_path_join(zip_dir, resources[i]))
         ELSE ScanThumbnail(zip_dir, resources, i + 1)

\* ZipName by the full code instead of the primary code
ZipName_FullCode(lang, lang_name) ==
    IF Truthy(lang) THEN lang.code ELSE lang_name

\* line 170
ZipName(lang, lang_name) ==
    IF Truthy(lang) THEN lang.primary_code ELSE lang_name

\* LOGGER.warning("Unable to find language for {}".format(lang_name))
UnableWarning(lang_name) ==
    [msg |-> "Unable to find language for {}", arg |-> lang_name]

\* lines 125-129
LanguageWarnings(lang_name) ==
    IF Truthy(getlang_by_native_name(lang_name)) THEN {}
    ELSE { UnableWarning(lang_name) }

\* licenses.PublicDomainLicense("Marcel Salath\xe9 & Nicky Case")
License ==
    [license_id |-> "Public Domain", copyright_holder |-> "Marcel Salathe & Nicky Case"]

\* lines 175-183: the TopicNode with its HTML5AppNode
TopicFor(lang_name, title, zip_filename, lang, thumbnail) ==
    [source_id |-> lang_name,
     title |-> lang_name,
     children |->
       << [source_id |-> SourceIdPrefix \o lang_name,
           title |-> title,
           files |-> <<zip_filename>>,
           license |-> License,
           language |-> lang,
           thumbnail |-> thumbnail] >>]

\* ProcessLanguage reading the title after the page is written and packed
ProcessLanguage_LateTitle(lang_name, lang_data, zip_dir, hasTitle) ==
    LET lang == getlang_by_native_name(lang_name)
        zip_filename == ZipFileName(ZipName(lang, lang_name))
        thumbnail == ScanThumbnail(zip_dir, lang_data.resources, 1)
    IN  IF ~hasTitle
        THEN [ok |-> FALSE, wroteIndex |-> TRUE, renamed |-> TRUE,
              zip_filename |-> zip_filename, topic |-> NoneVal]
        ELSE [ok |-> TRUE, wroteIndex |-> TRUE, renamed |-> TRUE,
              zip_filename |-> zip_filename,
              topic |-> TopicFor(lang_name, PageTitle(lang_data.url),
                                 zip_filename, lang, thumbnail)]

\* lines 125-184 for one language whose page is in the archive: what the
\* iteration has done by the time it ends or raises.  hasTitle: the page
\* has <span id="share_title">.
ProcessLanguage(lang_name, lang_data, zip_dir, hasTitle) ==
    LET lang == getlang_by_native_name(lang_name)
        zip_filename == ZipFileName(ZipName(lang, lang_name))
        thumbnail == ScanThumbnail(zip_dir, lang_data.resources, 1)
    IN  IF ~hasTitle
        THEN \* line 141: None has no attribute text
             [ok |-> FALSE, wroteIndex |-> FALSE, renamed |-> FALSE,
              zip_filename |-> zip_filename, topic |-> NoneVal]
        ELSE [ok |-> TRUE, wroteIndex |-> TRUE, renamed |-> TRUE,
              zip_filename |-> zip_filename,
              topic |-> TopicFor(lang_name, PageTitle(lang_data.url),
                                 zip_filename, lang, thumbnail)]

\* line 131: the directory create_zip_dir_for_page makes for the n-th page
ZipDirOf(n) ==
    TmpDir \o <<48 + n>>

InLanguages ==
    /\ pc = "construct"
    /\ pos <= Len(lang_names)

\* the state after an iteration with outcome r
Apply(lang_name, r) ==
    /\ warnings' = warnings \cup LanguageWarnings(lang_name)
    /\ written' = IF r.wroteIndex THEN written \cup {lang_name} ELSE written
    /\ relocated' = IF r.renamed THEN relocated \cup {lang_name} ELSE relocated
    /\ zips' = IF r.renamed THEN [zips EXCEPT ![r.zip_filename] = lang_name]
               ELSE zips
    /\ IF r.ok
       THEN /\ channel' = Append(channel, r.topic)
            /\ pos' = pos + 1
            /\ UNCHANGED <<pc, failure>>
       ELSE /\ pc' = "aborted"
            /\ failure' = "title"
            /\ UNCHANGED <<channel, pos>>
    /\ UNCHANGED <<site, storeFile, disk, data, idx, netCalls, lang_names,
                   store0, disk0>>

\* one whole iteration of the loop of line 122
PackLanguage ==
    /\ InLanguages
    /\ LET lang_name == lang_names[pos]
           lang_data == DictGet(data, lang_name)
       IN  /\ lang_data.index_path \in disk
           /\ Apply(lang_name,
                    ProcessLanguage(lang_name, lang_data, ZipDirOf(pos), TRUE))

\* an iteration that raises at line 141
TitleMissing ==
    /\ InLanguages
    /\ LET lang_name == lang_names[pos]
           lang_data == DictGet(data, lang_name)
       IN  /\ lang_data.index_path \in disk
           /\ Apply(lang_name,
                    ProcessLanguage(lang_name, lang_data, ZipDirOf(pos), FALSE))

\* lines 131-133 raising: the stored page is not in the archive
PageMissing ==
    /\ InLanguages
    /\ LET lang_name == lang_names[pos]
       IN  /\ DictGet(data, lang_name).index_path \notin disk
           /\ warnings' = warnings \cup LanguageWarnings(lang_name)
    /\ pc' = "aborted"
    /\ failure' = "page"
    /\ UNCHANGED <<site, storeFile, disk, data, idx, netCalls, lang_names,
                   pos, channel, zips, written, relocated, store0, disk0>>

\* line 186
ConstructReturn ==
    /\ pc = "construct"
    /\ pos > Len(lang_names)
    /\ pc' = "returned"
    /\ UNCHANGED <<site, storeFile, disk, data, idx, netCalls, warnings,
                   lang_names, pos, channel, zips, written, relocated, failure,
                   store0, disk0>>

(* --------------------------- specifications ---------------------------- *)

NextConstruct ==
    \/ SortNames
    \/ PackLanguage
    \/ TitleMissing
    \/ PageMissing
    \/ ConstructReturn

Next ==
    \/ Load
    \/ LoadFails
    \/ FetchEnglish
    \/ FetchEnglishFails
    \/ SkipEnglish
    \/ ParseRoot
    \/ SkipHelpLink
    \/ FetchLang
    \/ FetchLangFails
    \/ SkipLang
    \/ LinksDone
    \/ OpenStore
    \/ DumpSome
    \/ DumpDone
    \/ DumpCrash
    \/ NextConstruct

\* a whole run: download_content, then construct_channel
Spec ==
    Init /\ [][Next]_vars

\* the resource paths get_page can record
ResPaths ==
    { ResCss, ResThumb, ResThumb2, ResJs }

\* every list of at most n elements of S
RECURSIVE SeqsUpTo(_, _)
SeqsUpTo(S, n) ==
    IF n = 0 THEN { <<>> }
    ELSE LET shorter == SeqsUpTo(S, n - 1)
         IN  shorter \cup { Append(s, x) : s \in shorter, x \in S }

\* construct_channel alone, on a store whose record of the root page holds
\* any resource list
InitThumb ==
    /\ site = [hasBlock |-> FALSE, links |-> <<>>]
    /\ \E r \in SeqsUpTo(ResPaths, MaxRes) :
         data = << [get_page(English, ROOT_URL) EXCEPT !.resources = r] >>
    /\ storeFile = CompleteFile(data)
    /\ disk \in SUBSET IndexPaths(data)
    /\ pc = "downloaded"
    /\ idx = 0
    /\ netCalls = 0
    /\ warnings = { NoTranslationsWarning }
    /\ ConstructIdle
    /\ failure = "none"
    /\ store0 = storeFile
    /\ disk0 = disk

SpecThumb ==
    InitThumb /\ [][NextConstruct]_vars

(* ------------------------------ properties ----------------------------- *)

\* the display names of the links download_content follows
LinkedLangs ==
    { LinkLang(site.links[i]) : i \in 1..Len(site.links) } \
    { n \in DisplayNames : Contains(TranslationWord, n) }

\* the store the run found holds, for English and for every linked language,
\* a record whose index_path was on disk
ValidStore0 ==
    /\ store0.state = "complete"
    /\ \A l \in {English} \cup LinkedLangs :
         /\ DictHas(store0.doc, l)
         /\ DictGet(store0.doc, l).index_path \in disk0

\* where the run is once download_content has returned
AfterDownload ==
    {"downloaded", "construct", "returned", "aborted"}

\* download_content has returned
Downloaded ==
    pc \in AfterDownload

\* C1 -- Idempotent fetch: a run that starts from a store valid for English
\* and for every linked language makes no remote retrieval at any point,
\* keeps self.data equal to the stored mapping, and once download_content
\* has returned the store file holds what it held before the run.
C1_IdempotentFetch ==
    ValidStore0 =>
        /\ netCalls = 0
        /\ failure # "fetch"
        /\ (pc \notin {"start", "failed"} => data = store0.doc)
        /\ (Downloaded => storeFile = store0)

\* C1 witness: download_content has returned from a valid store of at least
\* two linked languages beside English.
C1_Witness ==
    /\ ValidStore0
    /\ pc = "downloaded"
    /\ Cardinality(LinkedLangs) >= 2
    /\ netCalls = 0

\* the file name of the archive of zip_name, spelled out
ArchivePath(zip_name) ==
    ZIP_DIR \o Slash \o zip_name \o DotZip

\* the grouping nodes construct_channel has appended so far
Topics ==
    { channel[i] : i \in 1..Len(channel) }

PythonOrder ==
    << English, Portugues, PortuguesBrasil, LowerPt >>

RankOf(name) ==
    CHOOSE i \in 1..Len(PythonOrder) : PythonOrder[i] = name

\* C3 -- Stable ordering: when construct_channel returns, the root holds
\* exactly one grouping node per key of the store, in ascending plain
\* lexicographic order of display name, whatever the order of the keys.
C3_StableOrdering ==
    pc = "returned" =>
        /\ Len(channel) = Len(data)
        /\ { t.source_id : t \in Topics } = { data[i].key : i \in 1..Len(data) }
        /\ \A i, j \in 1..Len(channel) :
             i < j => /\ StrLess(channel[i].source_id, channel[j].source_id)
                      /\ RankOf(channel[i].source_id) < RankOf(channel[j].source_id)

\* C3 witness: construct_channel has returned three or more nodes for a
\* store whose keys were not in ascending order.
C3_Witness ==
    /\ pc = "returned"
    /\ Len(channel) >= 3
    /\ DictKeys(data) # lang_names

\* C4 -- Atomic store save: at every point of a run that found no store or
\* a complete one, the store file holds the complete previous mapping or
\* the complete new mapping.
C4_AtomicSave ==
    store0.state \in {"absent", "complete"} =>
        \/ storeFile = store0
        \/ storeFile = CompleteFile(data)

\* the keys of the store the run found
StoredBefore ==
    { store0.doc[i].key : i \in 1..Len(store0.doc) }

\* C6 as claimed -- Missing translations block: the run proceeds, and when
\* construct_channel returns the tree holds exactly one grouping node, for
\* English, whatever the store held before.
C6_EnglishOnly ==
    (~site.hasBlock /\ pc = "returned") =>
        /\ Len(channel) = 1
        /\ channel[1].source_id = English

\* C6 (as amended) -- Missing translations block: download_content logs
\* the warning, retrieves nothing but (if need be) the root page, adds no
\* key but English and goes on to save; when construct_channel returns the
\* tree holds exactly one grouping node for English and one for each
\* language the store already held before the run.
C6_EnglishPlusStored ==
    ~site.hasBlock =>
        /\ netCalls <= 1
        /\ (pc \in ({"save", "dump"} \cup AfterDownload)
              => NoTranslationsWarning \in warnings)
        /\ (failure = "fetch" => NoTranslationsWarning \notin warnings)
        /\ (Downloaded
              => { data[i].key : i \in 1..Len(data) } = {English} \cup StoredBefore)
        /\ (pc = "returned"
              => /\ { t.source_id : t \in Topics } = {English} \cup StoredBefore
                 /\ Len(channel) = Cardinality({English} \cup StoredBefore))

\* C6 witness: a run on a root page without the block has returned a tree
\* of English and two stored languages.
C6_Witness ==
    /\ ~site.hasBlock
    /\ pc = "returned"
    /\ Len(channel) = 3
    /\ NoTranslationsWarning \in warnings

\* C7 -- Record validity: once download_content has returned, every record
\* of self.data has an index_path that exists on disk.
C7_RecordsValid ==
    Downloaded => \A i \in 1..Len(data) : data[i].index_path \in disk

\* the positions of the resources that hold the thumbnail fragment
Hits(resources) ==
    { j \in 1..Len(resources) : Contains(ThumbFragment, resources[j]) }

\* C8 -- Thumbnail selection: the leaf node of the n-th language carries
\* the first resource of its record that holds 'dp3t.png', under the
\* directory of its page, and None when no resource holds it; the node is
\* appended either way.
C8_ThumbnailFirstMatch ==
    /\ \A n \in 1..Len(channel) :
         LET leaf == channel[n].children[1]
             res == DictGet(data, channel[n].source_id).resources
         IN  IF Hits(res) = {}
             THEN leaf.thumbnail = NoneVal
             ELSE LET first == CHOOSE j \in Hits(res) : \A h \in Hits(res) : j <= h
                  IN  leaf.thumbnail = StrVal(ZipDirOf(n) \o Slash \o res[first])
    /\ (pc = "returned" => Len(channel) = Len(data))

\* C8 witness: a node whose record holds two different matching resources
\* after one that does not match.
C8_Witness ==
    /\ pc = "returned"
    /\ \E n \in 1..Len(channel) :
         LET res == DictGet(data, channel[n].source_id).resources
         IN  /\ 1 \notin Hits(res)
             /\ \E h1, h2 \in Hits(res) : res[h1] # res[h2]
             /\ channel[n].children[1].thumbnail # NoneVal

\* C9 -- No rollback on failure: when a page lacks the title element the
\* run stops at that language; the root holds the grouping nodes of the
\* languages before it in sorted order and no other, and neither that
\* language nor a later one has had its index.html written or its archive
\* relocated.
C9_NoRollback ==
    failure = "title" =>
        /\ pc = "aborted"
        /\ pos <= Len(lang_names)
        /\ [i \in 1..Len(channel) |-> channel[i].source_id]
             = SubSeq(lang_names, 1, pos - 1)
        /\ \A j \in pos..Len(lang_names) :
             /\ lang_names[j] \notin written
             /\ lang_names[j] \notin relocated
             /\ \A f \in ZipFiles : zips[f] # lang_names[j]

\* C9 witness: the run has stopped at a language with one packaged before
\* it and one still to come.
C9_Witness ==
    /\ failure = "title"
    /\ pos >= 2
    /\ pos < Len(lang_names)
    /\ Len(channel) = pos - 1

\* C10 -- Archives are not clobbered: when construct_channel returns, the
\* file every leaf node references holds the page of that node's language.
C10_NoClobber ==
    pc = "returned" =>
        \A t \in Topics : zips[t.children[1].files[1]] = t.source_id

====
